---- MODULE Spec2Model ----
(***************************************************************************)
(* Batch orchestration and reliability layer of the GHPL metadata          *)
(* pipeline: RateLimiter, SearchQuotaTracker, the retry loops around the   *)
(* extraction call, the flex/standard fallback of the GPT-5 pipeline and   *)
(* the BatchProgress bookkeeping of batch_process_pdfs.                    *)
(*                                                                         *)
(* Each component has its own specification over the shared variables; a   *)
(* specification leaves the variables of the other components unchanged.   *)
(* Time is counted in tenths of a second, so that the 60.0 s window and    *)
(* the 0.1 s buffer of the rate limiter are both integers.                 *)
(***************************************************************************)
EXTENDS Integers, Sequences, FiniteSets, TLC

\* ------------------------------------------------------------------------
\* Bounds of the model
\* ------------------------------------------------------------------------
NumThreads == 2
MaxCalls == 5
MaxTime == 902
MaxRequestsPerMinute == 2
MaxTokensPerMinute == 3
MaxSearchesPerDay == 2
MaxDay == 2
MaxQuotaCalls == 5
MaxCfgRetries == 3
NumFiles == 2
MaxRuns == 3
MaxBatchSize == 2
MaxOutcomes == 3
MaxExports == 2
MaxNameLen == 2
MaxAddCalls == 3
MaxUploadItems == 2

Threads == 1..NumThreads
NoThread == 0
None == 0 - 1
Days == 0..MaxDay
NoCall == [date |-> None]
Files == 1..NumFiles
NoFile == [absent |-> TRUE]
Modes == {"fresh", "resume", "retry_failed"}

\* ------------------------------------------------------------------------
\* Program constants
\* ------------------------------------------------------------------------
Window == 600
Buffer == 1
TimeSteps == {300, 301}
TokenCounts == {0, 2}
DefaultMaxRetries == 3
StopAfterAttempt == 6
RequestsPerDocument == 2

\* str(e).lower() of the errors the extraction call raises, as the set of the
\* substrings the classification looks for
ErrorMessages == {{"429", "rate limit"}, {"503", "unavailable"}, {"timeout"},
                  {"400"}, {"401"}, {"403", "permission"}, {"404", "not found"},
                  {"422"}}

\* type(e).__name__ of the exceptions raised by the rest of
\* process_pdf_with_validation
ErrorTypes == {"Exception", "FileNotFoundError", "PermissionError",
               "JSONDecodeError"}

VARIABLES
    now,            \* time.time(), in tenths of a second
    max_tokens,     \* RateLimiter.max_tokens_per_minute (None when disabled)
    requests,       \* RateLimiter._requests
    token_usage,    \* RateLimiter._token_usage, <<timestamp, tokens>> pairs
    rlLock,         \* holder of RateLimiter._lock, NoThread when free
    rlpc,           \* position of each caller of wait_for_rate_limit
    rlNow,          \* local `now` of wait_if_needed
    rlWake,         \* end of the caller's time.sleep(wait_time)
    rlCalls,        \* calls of wait_for_rate_limit made so far
    admitted,       \* history: timestamps recorded by calls that returned 0
    sent            \* history: requests sent, [at |-> time, adm |-> under admission]

VARIABLES
    today,          \* datetime.date.today(), as a day number
    searches_today, \* SearchQuotaTracker._searches_today
    date_today,     \* SearchQuotaTracker._date_today
    quota_file,     \* content of search_quota.json: [date, count]
    qLock,          \* holder of SearchQuotaTracker._lock, NoThread when free
    qpc,            \* position of each caller of use_search_quota
    qLocal,         \* value loaded by `self._searches_today += 1`
    qCall,          \* history: the call in progress, [date, idx, before]
    qCalls,         \* calls of use_search_quota made so far
    callsOn,        \* history: calls checked on each date
    trueOn,         \* history: calls that returned True on each date
    qLast           \* history: the last call that returned

rlVars == <<now, max_tokens, requests, token_usage, rlLock, rlpc, rlNow,
            rlWake, rlCalls, admitted, sent>>

qVars == <<today, searches_today, date_today, quota_file, qLock, qpc, qLocal,
           qCall, qCalls, callsOn, trueOn, qLast>>

VARIABLES
    cfg_max_retries, \* --max-retries of the batch run
    rtpc,           \* position inside process_single_pdf_batch
    retry_count,    \* retry_count of process_single_pdf_batch
    retry,          \* loop variable of get_metadata_from_gemini
    attempts,       \* history: calls of client.models.generate_content
    backoffs,       \* history: backoff sleeps taken
    firstOutcome,   \* history: outcome of the first extraction call
    onlyRetryable,  \* history: so far every failure was a retryable error
                    \* of the extraction call
    rows,           \* history: rows given to results_collector.add_result
    rtResult        \* return value of process_single_pdf_batch

rtVars == <<cfg_max_retries, rtpc, retry_count, retry, attempts, backoffs,
            firstOutcome, onlyRetryable, rows, rtResult>>

VARIABLES
    fbpc,           \* position inside make_api_request_with_retry
    fbRequest,      \* which request of the document is being made (Q1, Q2)
    attempt_number, \* tenacity's attempt number of api_call_with_tenacity
    failures,       \* history: attempts of api_call_with_tenacity that raised
    fallbacks,      \* history: fallback calls made for this request
    service_tier    \* service_tier of the last request sent

fbVars == <<fbpc, fbRequest, attempt_number, failures, fallbacks, service_tier>>

VARIABLES
    progress_file,  \* content of batch_progress.json, NoFile when absent
    bpc,            \* "idle" between runs, "running" inside batch_process_pdfs
    mode,           \* run mode of the current (or last) run
    limit,          \* --limit of the run, 0 when not given
    batch_size,     \* --batch-size of the run
    progress,       \* the BatchProgress object of the run
    file_items,     \* list(pending_files.items())
    batch_start,    \* start of the next batch in file_items
    futures,        \* future_to_file: submitted and not yet collected
    runs,           \* runs started so far
    submitted,      \* history: files handed to the executor in this run
    loaded,         \* history: the progress record the run started from
    succeeded,      \* history: files whose worker returned True in this run
    failedNow       \* history: files whose worker returned False in this run

bVars == <<progress_file, bpc, mode, limit, batch_size, progress, file_items,
           batch_start, futures, runs, submitted, loaded, succeeded, failedNow>>

VARIABLES
    ps_file,        \* content of batch_progress.json as a crash can leave it
    ps_progress,    \* the BatchProgress object of the running process
    pspc,           \* "running", "writing" inside save_to_file, or "crashed"
    psOutcomes,     \* outcomes recorded so far, over all restarts
    psSaved,        \* history: the outcomes whose save_to_file has returned
    psLoaded        \* history: the last restart, [record |-> what load_from_file
                    \* returned, saved |-> psSaved at that time]

psVars == <<ps_file, ps_progress, pspc, psOutcomes, psSaved, psLoaded>>

VARIABLES
    g5pc,           \* "idle", "running" or "finished": batch_process_documents
    g5_csv,         \* rows of the most recent meta_gpt5_results_*.csv
    g5_files,       \* pdf_files after the resume filter and the limit
    g5_futures,     \* future_to_file: submitted and not yet collected
    g5_results,     \* the list `results` of the run
    g5_stats        \* the final statistics of the run

g5Vars == <<g5pc, g5_csv, g5_files, g5_futures, g5_results, g5_stats>>

VARIABLES
    ce_args,        \* arguments of the last call of categorize_error
    ce_result       \* the dict it returned

ceVars == <<ce_args, ce_result>>

VARIABLES
    sc_pc,          \* position of the worker of each item of the batch
    sc_retry_count, \* retry_count of process_single_pdf_batch, for each item
    sc_retry,       \* retry of get_metadata_from_gemini, for each item
    sc_calls,       \* extraction calls made so far, for each item
    sc_rows,        \* results_collector.results
    sc_progress,    \* the BatchProgress object of the run
    sc_file,        \* content of the progress file
    sc_summary      \* the final summary, NoStats until it is printed

scVars == <<sc_pc, sc_retry_count, sc_retry, sc_calls, sc_rows, sc_progress,
            sc_file, sc_summary>>

VARIABLES
    ex_target,      \* the Excel file at output_path, NoSheet if absent
    ex_last,        \* history: the last call of export_results, [append_mode,
                    \* results, before |-> the target before the call]
    ex_count        \* calls of export_results made so far

exVars == <<ex_target, ex_last, ex_count>>

VARIABLES
    gt_ground_truth, \* the dict load_ground_truth_metadata returned, as the set
                    \* of its entries; empty before the reference file is read
    gt_row,         \* history: the reference row it was loaded from
    gt_call,        \* arguments of the last compare_with_ground_truth
    gt_result,      \* the dict it returned, as stored in the result
    gt_search       \* search_resolution_results, NoResult before the search

gtVars == <<gt_ground_truth, gt_row, gt_call, gt_result, gt_search>>

VARIABLES
    ar_results,     \* BatchResults.results
    ar_stats,       \* BatchResults.summary_stats
    ar_lock,        \* holder of BatchResults._lock, NoThread when free
    ar_pc,          \* position of each thread inside add_result
    ar_arg,         \* whether the result_data of the thread carries metadata
    ar_local,       \* the counter value loaded by the thread's `+= 1`
    ar_calls,       \* calls of add_result started so far
    ar_summary      \* the dict the last get_summary returned

arVars == <<ar_results, ar_stats, ar_lock, ar_pc, ar_arg, ar_local, ar_calls,
            ar_summary>>

VARIABLES
    up_pc,          \* position of process_pdf_with_validation for the item
    up_item,        \* number of the work item being processed
    up_uploaded,    \* artifacts of the item that client.files.upload returned
    up_requests,    \* client.files.delete calls per artifact of the item
    up_remote,      \* <<item, artifact>> pairs present in the remote store
    up_logged,      \* deletion failures logged for the item
    up_propagated,  \* a deletion failure left the function as an exception
    up_outcome      \* how the extraction of the item ended

upVars == <<up_pc, up_item, up_uploaded, up_requests, up_remote, up_logged,
            up_propagated, up_outcome>>

VARIABLES
    b_exported      \* files that have a result row in an export file

mxVars == <<b_exported>>

extVars == <<psVars, g5Vars, ceVars, scVars, exVars, gtVars, arVars, upVars,
             mxVars>>

vars == <<rlVars, qVars, rtVars, fbVars, bVars, extVars>>

nonB == <<rlVars, qVars, rtVars, fbVars, extVars>>

nonRL == <<qVars, rtVars, fbVars, bVars, extVars>>
nonQ == <<rlVars, rtVars, fbVars, bVars, extVars>>
nonRT == <<rlVars, qVars, fbVars, bVars, extVars>>
nonFB == <<qVars, rtVars, bVars, rlLock, rlpc, rlNow, rlWake, rlCalls, admitted,
           sent, max_tokens, token_usage, extVars>>

coreVars == <<rlVars, qVars, rtVars, fbVars, bVars>>
nonPS == <<coreVars, g5Vars, ceVars, scVars, exVars,
          gtVars, arVars, upVars, mxVars>>
nonG5 == <<coreVars, psVars, ceVars, scVars, exVars,
          gtVars, arVars, upVars, mxVars>>
nonCE == <<coreVars, psVars, g5Vars, scVars, exVars,
          gtVars, arVars, upVars, mxVars>>
nonSC == <<coreVars, psVars, g5Vars, ceVars, exVars,
          gtVars, arVars, upVars, mxVars>>
nonEX == <<coreVars, psVars, g5Vars, ceVars, scVars,
          gtVars, arVars, upVars, mxVars>>
nonGT == <<coreVars, psVars, g5Vars, ceVars, scVars,
          exVars, arVars, upVars, mxVars>>
nonAR == <<coreVars, psVars, g5Vars, ceVars, scVars,
          exVars, gtVars, upVars, mxVars>>
nonUP == <<coreVars, psVars, g5Vars, ceVars, scVars,
          exVars, gtVars, arVars, mxVars>>
nonMX == <<coreVars, psVars, g5Vars, ceVars, scVars,
          exVars, gtVars, arVars, upVars>>

\* ------------------------------------------------------------------------
\* Sequence helpers
\* ------------------------------------------------------------------------
RECURSIVE SelectSeqBy(_, _)
SelectSeqBy(s, keep) ==
    IF s = <<>> THEN <<>>
    ELSE IF Head(s) \in keep
         THEN <<Head(s)>> \o SelectSeqBy(Tail(s), keep)
         ELSE SelectSeqBy(Tail(s), keep)

RECURSIVE SumTokens(_)
SumTokens(s) == IF s = <<>> THEN 0 ELSE Head(s)[2] + SumTokens(Tail(s))

SeqMin(s) == CHOOSE m \in {s[i] : i \in 1..Len(s)} :
                 \A i \in 1..Len(s) : m <= s[i]

Max2(a, b) == IF a >= b THEN a ELSE b

\* ------------------------------------------------------------------------
\* RateLimiter (utils.py; cli.py has the same class without the token limit)
\* ------------------------------------------------------------------------
\* self._requests = [t for t in self._requests if t > cutoff]
PruneRequests(reqs, cutoff) ==
    SelectSeqBy(reqs, {x \in {reqs[i] : i \in 1..Len(reqs)} : x > cutoff})

\* self._token_usage = [(ts, tok) for ts, tok in self._token_usage if ts > cutoff]
PruneTokens(usage, cutoff) ==
    SelectSeqBy(usage, {p \in {usage[i] : i \in 1..Len(usage)} : p[1] > cutoff})

\* if len(self._requests) >= self.max_requests_per_minute
WindowFull(reqs) == Len(reqs) >= MaxRequestsPerMinute

\* request_wait_time = 60.0 - (now - oldest_request) + 0.1, else 0.0
RequestWait(reqs, t) ==
    IF WindowFull(reqs) THEN Window - (t - SeqMin(reqs)) + Buffer ELSE 0

\* token_wait_time = 60.0 - (now - oldest_token_time) + 0.1, else 0.0
TokenWait(usage, t, maxTok) ==
    IF maxTok # None /\ SumTokens(usage) >= maxTok /\ usage # <<>>
    THEN Window - (t - SeqMin([i \in 1..Len(usage) |-> usage[i][1]])) + Buffer
    ELSE 0

\* wait_if_needed without `with self._lock`
LockFreeUnguarded(holder) == TRUE

\* with self._lock: the lock can be taken when nobody holds it
LockFree(holder) == holder = NoThread

\* wait_for_rate_limit is entered; wait_if_needed takes the lock
RLEnter(t) ==
    /\ rlpc[t] = "idle"
    /\ rlCalls < MaxCalls
    /\ LockFree(rlLock)
    /\ rlLock' = t
    /\ rlpc' = [rlpc EXCEPT ![t] = "check"]
    /\ rlCalls' = rlCalls + 1
    /\ UNCHANGED <<now, max_tokens, requests, token_usage, rlNow, rlWake,
                   admitted, sent>>
    /\ UNCHANGED nonRL

\* wait_if_needed: now, prune, both checks; a positive wait is returned
\* without recording, and the caller goes to sleep for that long
RLCheck(t) ==
    /\ rlpc[t] = "check"
    /\ LET cutoff == now - Window
           reqs == PruneRequests(requests, cutoff)
           usage == IF max_tokens # None
                    THEN PruneTokens(token_usage, cutoff) ELSE token_usage
           wait == Max2(Max2(0, RequestWait(reqs, now)),
                        TokenWait(usage, now, max_tokens))
       IN /\ requests' = reqs
          /\ token_usage' = usage
          /\ rlNow' = [rlNow EXCEPT ![t] = now]
          /\ IF wait > 0
             THEN /\ rlLock' = NoThread
                  /\ rlpc' = [rlpc EXCEPT ![t] = "sleep"]
                  /\ rlWake' = [rlWake EXCEPT ![t] = now + wait]
             ELSE /\ rlpc' = [rlpc EXCEPT ![t] = "append"]
                  /\ UNCHANGED <<rlLock, rlWake>>
    /\ UNCHANGED <<now, max_tokens, rlCalls, admitted, sent>>
    /\ UNCHANGED nonRL

\* self._requests.append(now); return 0.0; the caller sends its request
RLAppend(t) ==
    /\ rlpc[t] = "append"
    /\ requests' = Append(requests, rlNow[t])
    /\ admitted' = Append(admitted, rlNow[t])
    /\ sent' = Append(sent, [at |-> now, adm |-> TRUE])
    /\ rlLock' = NoThread
    /\ rlpc' = [rlpc EXCEPT ![t] = "sent"]
    /\ UNCHANGED <<now, max_tokens, token_usage, rlNow, rlWake, rlCalls>>
    /\ UNCHANGED nonRL

\* time.sleep(wait_time) is over; the caller sends its request
RLWake(t) ==
    /\ rlpc[t] = "sleep"
    /\ now >= rlWake[t]
    /\ sent' = Append(sent, [at |-> now, adm |-> FALSE])
    /\ rlpc' = [rlpc EXCEPT ![t] = "sent"]
    /\ UNCHANGED <<now, max_tokens, requests, token_usage, rlLock, rlNow,
                   rlWake, rlCalls, admitted>>
    /\ UNCHANGED nonRL

\* record_token_usage(tokens) after the response
RLRecordTokens(t) ==
    /\ rlpc[t] = "sent"
    /\ \E tokens \in TokenCounts :
          IF max_tokens # None /\ tokens > 0
          THEN /\ LockFree(rlLock)
               /\ token_usage' = Append(token_usage, <<now, tokens>>)
          ELSE UNCHANGED token_usage
    /\ rlpc' = [rlpc EXCEPT ![t] = "idle"]
    /\ UNCHANGED <<now, max_tokens, requests, rlLock, rlNow, rlWake, rlCalls,
                   admitted, sent>>
    /\ UNCHANGED nonRL

\* the clock advances; a critical section takes no time on this scale
Tick ==
    /\ rlLock = NoThread
    /\ \E d \in TimeSteps :
          /\ now + d <= MaxTime
          /\ now' = now + d
    /\ UNCHANGED <<max_tokens, requests, token_usage, rlLock, rlpc, rlNow,
                   rlWake, rlCalls, admitted, sent>>
    /\ UNCHANGED nonRL

RLStart ==
    /\ now = 0
    /\ max_tokens \in {None, MaxTokensPerMinute}
    /\ requests = <<>>
    /\ token_usage = <<>>
    /\ rlLock = NoThread
    /\ rlpc = [t \in Threads |-> "idle"]
    /\ rlNow = [t \in Threads |-> 0]
    /\ rlWake = [t \in Threads |-> 0]
    /\ rlCalls = 0
    /\ admitted = <<>>
    /\ sent = <<>>

RLThread == \E t \in Threads :
    RLEnter(t) \/ RLCheck(t) \/ RLAppend(t) \/ RLWake(t) \/ RLRecordTokens(t)

\* number of entries of the history h in the trailing window (at - Window, at]
InWindow(h, at) == Cardinality({i \in 1..Len(h) : h[i] > at - Window /\ h[i] <= at})

\* C1: in every trailing 60-second window the number of wait_if_needed calls
\* that returned 0 (recorded an admission) is at most max_requests_per_minute
C1_AdmissionBound ==
    \A i \in 1..Len(admitted) : InWindow(admitted, admitted[i]) <= MaxRequestsPerMinute

\* a call was refused while the window was full, and after pruning more
\* admissions were recorded than one window allows
C1_Witness ==
    /\ Len(admitted) > MaxRequestsPerMinute
    /\ \E i \in 1..Len(sent) : ~sent[i].adm

SentTimes == [i \in 1..Len(sent) |-> sent[i].at]

\* C2: every request is sent under a recorded admission of its own, so the
\* requests sent in any trailing 60-second window number at most
\* max_requests_per_minute
C2_SentUnderAdmission ==
    /\ \A i \in 1..Len(sent) : sent[i].adm
    /\ \A i \in 1..Len(sent) : InWindow(SentTimes, sent[i].at) <= MaxRequestsPerMinute

\* ------------------------------------------------------------------------
\* SearchQuotaTracker (cli.py)
\* ------------------------------------------------------------------------
\* can_use_search comparing with <= instead of <
QuotaAvailableOffByOne(count) == count <= MaxSearchesPerDay

\* return self._searches_today < self.max_searches_per_day
QuotaAvailable(count) == count < MaxSearchesPerDay

\* use_search_quota without `with self._lock`
QuotaLockFreeUnguarded(holder) == TRUE

\* with self._lock in use_search_quota
QuotaLockFree(holder) == holder = NoThread

\* _load_quota: the count of the file when the file is of today, else a reset
LoadedCount(file, day) == IF file.date = day THEN file.count ELSE 0

\* _save_quota: {'date': self._date_today, 'count': self._searches_today}
SavedQuota(day, count) == [date |-> day, count |-> count]

\* use_search_quota takes the lock
QEnter(t) ==
    /\ qpc[t] = "idle"
    /\ qCalls < MaxQuotaCalls
    /\ QuotaLockFree(qLock)
    /\ qLock' = t
    /\ qpc' = [qpc EXCEPT ![t] = "check"]
    /\ qCalls' = qCalls + 1
    /\ qCall' = [qCall EXCEPT ![t] = [date |-> None, idx |-> 0,
                                      before |-> searches_today]]
    /\ UNCHANGED <<today, searches_today, date_today, quota_file, qLocal,
                   callsOn, trueOn, qLast>>
    /\ UNCHANGED nonQ

\* can_use_search: reload on a new day, then compare; False is returned at once
QCheck(t) ==
    /\ qpc[t] = "check"
    /\ LET count == IF today # date_today
                    THEN LoadedCount(quota_file, today) ELSE searches_today
           idx == callsOn[today] + 1
       IN /\ searches_today' = count
          /\ date_today' = today
          /\ quota_file' = IF today # date_today /\ quota_file.date # today
                           THEN SavedQuota(today, count) ELSE quota_file
          /\ callsOn' = [callsOn EXCEPT ![today] = idx]
          /\ IF QuotaAvailable(count)
             THEN /\ qpc' = [qpc EXCEPT ![t] = "load"]
                  /\ qCall' = [qCall EXCEPT ![t].date = today, ![t].idx = idx]
                  /\ UNCHANGED <<qLock, qLast>>
             ELSE /\ qpc' = [qpc EXCEPT ![t] = "idle"]
                  /\ qLock' = NoThread
                  /\ qLast' = [date |-> today, idx |-> idx, res |-> FALSE,
                               count |-> count, before |-> qCall[t].before,
                               thread |-> t]
                  /\ UNCHANGED qCall
    /\ UNCHANGED <<today, qLocal, qCalls, trueOn>>
    /\ UNCHANGED nonQ

\* self._searches_today += 1, the load of the attribute
QLoad(t) ==
    /\ qpc[t] = "load"
    /\ qLocal' = [qLocal EXCEPT ![t] = searches_today]
    /\ qpc' = [qpc EXCEPT ![t] = "store"]
    /\ UNCHANGED <<today, searches_today, date_today, quota_file, qLock, qCall,
                   qCalls, callsOn, trueOn, qLast>>
    /\ UNCHANGED nonQ

\* the store of the attribute, _save_quota, return True
QStore(t) ==
    /\ qpc[t] = "store"
    /\ searches_today' = qLocal[t] + 1
    /\ quota_file' = SavedQuota(date_today, qLocal[t] + 1)
    /\ trueOn' = [trueOn EXCEPT ![qCall[t].date] = @ + 1]
    /\ qLast' = [date |-> qCall[t].date, idx |-> qCall[t].idx, res |-> TRUE,
                 count |-> qLocal[t] + 1, before |-> qCall[t].before,
                 thread |-> t]
    /\ qLock' = NoThread
    /\ qpc' = [qpc EXCEPT ![t] = "idle"]
    /\ UNCHANGED <<today, date_today, qLocal, qCall, qCalls, callsOn>>
    /\ UNCHANGED nonQ

\* the process is started again: __post_init__ runs _load_quota on the file
QRestart ==
    /\ \A t \in Threads : qpc[t] = "idle"
    /\ searches_today' = LoadedCount(quota_file, today)
    /\ date_today' = today
    /\ quota_file' = IF quota_file.date = today THEN quota_file
                     ELSE SavedQuota(today, 0)
    /\ UNCHANGED <<today, qLock, qpc, qLocal, qCall, qCalls, callsOn, trueOn,
                   qLast>>
    /\ UNCHANGED nonQ

\* midnight
NextDay ==
    /\ today < MaxDay
    /\ today' = today + 1
    /\ UNCHANGED <<searches_today, date_today, quota_file, qLock, qpc, qLocal,
                   qCall, qCalls, callsOn, trueOn, qLast>>
    /\ UNCHANGED nonQ

\* __post_init__ without a quota file of today: the count is reset and saved
QStart ==
    /\ today = 0
    /\ searches_today = 0
    /\ date_today = 0
    /\ quota_file = SavedQuota(0, 0)
    /\ qLock = NoThread
    /\ qpc = [t \in Threads |-> "idle"]
    /\ qLocal = [t \in Threads |-> 0]
    /\ qCall = [t \in Threads |-> [date |-> None, idx |-> 0, before |-> 0]]
    /\ qCalls = 0
    /\ callsOn = [d \in Days |-> 0]
    /\ trueOn = [d \in Days |-> 0]
    /\ qLast = NoCall

QThread == \E t \in Threads : QEnter(t) \/ QCheck(t) \/ QLoad(t) \/ QStore(t)

RetryableErrors == {"rate limit", "quota", "timeout", "503", "429",
                    "connection", "temporary", "unavailable"}

\* should_retry = any(err in error_msg.lower() for err in retryable_errors)
ShouldRetryCall(msg) == msg \cap RetryableErrors # {}

\* non_retryable_errors of process_single_pdf_batch
NonRetryableTypes == {"FileNotFoundError", "PermissionError", "JSONDecodeError"}

\* should_retry of process_single_pdf_batch
ShouldRetryItem(type, msgMatches, count, maxRetries) ==
    type \notin NonRetryableTypes /\ (msgMatches \/ count < maxRetries)

\* executor.submit(process_single_pdf_batch, ...) passes no max_retries, so
\* the worker runs with the default of its signature
WorkerMaxRetries(configured) == DefaultMaxRetries

\* the except branch of process_single_pdf_batch
ItemFailure(type, msgMatches, causedByCall) ==
    LET m == WorkerMaxRetries(cfg_max_retries)
    IN /\ onlyRetryable' = (onlyRetryable /\ causedByCall)
       /\ IF ~ShouldRetryItem(type, msgMatches, retry_count, m) \/ retry_count >= m
          THEN /\ rows' = Append(rows, "error")
               /\ rtResult' = "False"
               /\ rtpc' = "done"
               /\ UNCHANGED retry_count
          ELSE /\ retry_count' = retry_count + 1
               /\ rtpc' = "loop"
               /\ UNCHANGED <<rows, rtResult>>

\* one iteration of `while retry_count <= max_retries` up to the call of
\* process_pdf_with_validation: backoff sleep, os.path.exists
RTIterate ==
    /\ rtpc = "loop"
    /\ backoffs' = IF retry_count > 0 THEN backoffs + 1 ELSE backoffs
    /\ \E exists \in BOOLEAN :
          IF exists
          THEN /\ rtpc' = "upload"
               /\ UNCHANGED <<rows, rtResult, onlyRetryable>>
          ELSE /\ rows' = Append(rows, "error")
               /\ rtResult' = "False"
               /\ rtpc' = "done"
               /\ onlyRetryable' = FALSE
    /\ UNCHANGED <<cfg_max_retries, retry_count, retry, attempts, firstOutcome>>
    /\ UNCHANGED nonRT

\* prepare_and_upload_pdf_subset returns the uploaded files or (None, None)
RTUpload ==
    /\ rtpc = "upload"
    /\ \E uploaded \in BOOLEAN :
          IF uploaded
          THEN /\ rtpc' = "extract"
               /\ retry' = 0
               /\ UNCHANGED <<retry_count, rows, rtResult, onlyRetryable>>
          ELSE /\ ItemFailure("Exception", FALSE, FALSE)
               /\ UNCHANGED retry
    /\ UNCHANGED <<cfg_max_retries, attempts, backoffs, firstOutcome>>
    /\ UNCHANGED nonRT

\* one iteration of `for retry in range(max_retries + 1)` of
\* get_metadata_from_gemini; a None return makes the worker raise
\* Exception("PDF processing returned no result")
RTExtract ==
    /\ rtpc = "extract"
    /\ attempts' = attempts + 1
    /\ LET slept == IF retry > 0 THEN backoffs + 1 ELSE backoffs
           m == WorkerMaxRetries(cfg_max_retries)
       IN \/ /\ rtpc' = "validate"
             /\ backoffs' = slept
             /\ firstOutcome' = IF attempts = 0 THEN "ok" ELSE firstOutcome
             /\ UNCHANGED <<retry_count, retry, rows, rtResult, onlyRetryable>>
          \/ \E msg \in ErrorMessages :
                /\ backoffs' = slept
                /\ firstOutcome' = IF attempts # 0 THEN firstOutcome
                                   ELSE IF ShouldRetryCall(msg) THEN "retryable"
                                   ELSE "fatal"
                /\ IF ~ShouldRetryCall(msg) \/ retry >= m
                   THEN /\ ItemFailure("Exception", FALSE, ShouldRetryCall(msg))
                        /\ UNCHANGED retry
                   ELSE /\ retry' = retry + 1
                        /\ onlyRetryable' = (onlyRetryable /\ ShouldRetryCall(msg))
                        /\ UNCHANGED <<retry_count, rtpc, rows, rtResult>>
    /\ UNCHANGED cfg_max_retries
    /\ UNCHANGED nonRT

\* the rest of process_pdf_with_validation: comparison, adjustment, tracking;
\* then results_collector.add_result and return True
RTValidate ==
    /\ rtpc = "validate"
    /\ \/ /\ rows' = Append(rows, "success")
          /\ rtResult' = "True"
          /\ rtpc' = "done"
          /\ UNCHANGED <<retry_count, onlyRetryable>>
       \/ \E type \in ErrorTypes, msgMatches \in BOOLEAN :
             ItemFailure(type, msgMatches, FALSE)
    /\ UNCHANGED <<cfg_max_retries, retry, attempts, backoffs, firstOutcome>>
    /\ UNCHANGED nonRT

RTStart ==
    /\ cfg_max_retries \in 0..MaxCfgRetries
    /\ rtpc = "loop"
    /\ retry_count = 0
    /\ retry = 0
    /\ attempts = 0
    /\ backoffs = 0
    /\ firstOutcome = "none"
    /\ onlyRetryable = TRUE
    /\ rows = <<>>
    /\ rtResult = "none"

\* C3: the extraction call of one item is attempted at most max_retries + 1
\* times, max_retries being the configured value, and exactly that often
\* when every attempt raises a retryable error
C3_RetryBudget ==
    /\ attempts <= cfg_max_retries + 1
    /\ (rtResult = "False" /\ onlyRetryable) =>
           attempts = cfg_max_retries + 1

\* C4: an item whose first extraction attempt raises a fatal error is
\* attempted once, with no retry and no backoff sleep
C4_FatalOnce ==
    firstOutcome = "fatal" => (attempts = 1 /\ backoffs = 0)

\* ------------------------------------------------------------------------
\* make_api_request_with_retry and api_call_with_tenacity (meta_ghpl_gpt5.py)
\* ------------------------------------------------------------------------
\* wait_if_needed as one step under its lock: the list it leaves behind
RequestsAfterWait(reqs, usage, maxTok, t) ==
    LET pruned == PruneRequests(reqs, t - Window)
        wait == Max2(Max2(0, RequestWait(pruned, t)),
                     TokenWait(PruneTokens(usage, t - Window), t, maxTok))
    IN IF wait > 0 THEN pruned ELSE Append(pruned, t)

\* tenacity stopping one attempt early
TenacityStopEarly(n) == n >= StopAfterAttempt - 1

\* stop=stop_after_attempt(6)
TenacityStop(n) == n >= StopAfterAttempt

\* one attempt of api_call_with_tenacity: wait_for_rate_limit, then the
\* request; retry=retry_if_exception_type((Exception,)) retries every error,
\* and the RetryError after the last attempt is caught by the wrapper
FBAttempt ==
    /\ fbpc = "attempt"
    /\ attempt_number' = attempt_number + 1
    /\ requests' = RequestsAfterWait(requests, token_usage, max_tokens, now)
    /\ service_tier' = "flex"
    /\ \/ /\ fbpc' = "returned"
          /\ UNCHANGED failures
       \/ /\ failures' = failures + 1
          /\ fbpc' = IF TenacityStop(attempt_number + 1) THEN "fallback"
                     ELSE "backoff"
    /\ UNCHANGED <<now, fbRequest, fallbacks>>
    /\ UNCHANGED nonFB

\* wait=wait_random_exponential(min=1, max=60) between two attempts
FBBackoff ==
    /\ fbpc = "backoff"
    /\ fbpc' = "attempt"
    /\ UNCHANGED <<now, requests, fbRequest, attempt_number, failures,
                   fallbacks, service_tier>>
    /\ UNCHANGED nonFB

\* the except branch of make_api_request_with_retry: wait_for_rate_limit and
\* one direct request with service_tier "auto"; its error is raised
FBFallback ==
    /\ fbpc = "fallback"
    /\ fallbacks' = fallbacks + 1
    /\ requests' = RequestsAfterWait(requests, token_usage, max_tokens, now)
    /\ service_tier' = "auto"
    /\ \E ok \in BOOLEAN : fbpc' = IF ok THEN "returned" ELSE "raised"
    /\ UNCHANGED <<now, fbRequest, attempt_number, failures>>
    /\ UNCHANGED nonFB

\* process_document_with_chat makes its next request
FBNextRequest ==
    /\ fbpc = "returned"
    /\ fbRequest < RequestsPerDocument
    /\ fbRequest' = fbRequest + 1
    /\ fbpc' = "attempt"
    /\ attempt_number' = 0
    /\ failures' = 0
    /\ fallbacks' = 0
    /\ UNCHANGED <<now, requests, service_tier>>
    /\ UNCHANGED nonFB

\* time passes while the worker sleeps or waits for a response
FBTick ==
    /\ \E d \in TimeSteps :
          /\ now + d <= MaxTime
          /\ now' = now + d
    /\ UNCHANGED <<requests, fbVars>>
    /\ UNCHANGED nonFB

FBStart ==
    /\ fbpc = "attempt"
    /\ fbRequest = 1
    /\ attempt_number = 0
    /\ failures = 0
    /\ fallbacks = 0
    /\ service_tier = "none"

\* C5: the fallback call is made at most once per request, only after all
\* stop_after_attempt attempts of api_call_with_tenacity have failed, it does
\* not count as an attempt, and when it fails the error is raised without
\* another call
C5_FallbackOnce ==
    /\ fallbacks <= 1
    /\ attempt_number <= StopAfterAttempt
    /\ (fallbacks = 1 \/ fbpc = "fallback") =>
           (attempt_number = StopAfterAttempt /\ failures = StopAfterAttempt)
    /\ fbpc = "raised" => fallbacks = 1
    /\ (fbpc = "returned" /\ failures < attempt_number) => fallbacks = 0

\* the fallback call was made after the last attempt failed, and it failed
C5_Witness ==
    /\ fbpc = "raised"
    /\ fallbacks = 1
    /\ failures = StopAfterAttempt
    /\ service_tier = "auto"

\* ------------------------------------------------------------------------
\* BatchProgress and batch_process_pdfs (cli.py)
\* ------------------------------------------------------------------------
ToSet(s) == {s[i] : i \in 1..Len(s)}

\* list.remove(x): the first occurrence is removed
RECURSIVE RemoveFirst(_, _)
RemoveFirst(s, x) ==
    IF s = <<>> THEN <<>>
    ELSE IF Head(s) = x THEN Tail(s)
    ELSE <<Head(s)>> \o RemoveFirst(Tail(s), x)

\* list(pdf_files.keys()): the files found, in the order of the dict
PdfFiles == [i \in 1..NumFiles |-> i]

\* BatchProgress(completed=[], failed=[], pending=list(pdf_files.keys()))
NewProgress == [completed |-> <<>>, failed |-> <<>>, pending |-> PdfFiles]

\* pending_files of retry-failed mode: the files named by an entry of failed
RetryPending(failed) == SelectSeqBy(PdfFiles, ToSet(failed))

\* pending_files without the filter on progress.completed
ResumePendingUnfiltered(completed) == PdfFiles

\* pending_files of the other modes: the files not in progress.completed
ResumePending(completed) == SelectSeqBy(PdfFiles, Files \ ToSet(completed))

\* list(pending_files.items())[:limit] when limit and limit < len(pending_files)
ApplyLimit(items, lim) ==
    IF lim # 0 /\ lim < Len(items) THEN SubSeq(items, 1, lim) ELSE items

\* progress.failed without the entries of filename
WithoutFailed(failed, filename) == SelectSeqBy(failed, ToSet(failed) \ {filename})

\* progress.failed after a worker returned False when the entry is not kept
FailedAfterDropping(failed, filename, success, retry_failed) ==
    IF success /\ retry_failed THEN WithoutFailed(failed, filename) ELSE failed

\* progress.failed after one round of the collect loop: a success of
\* retry-failed mode removes the entries of the file, a failure appends one
FailedAfter(failed, filename, success, retry_failed) ==
    IF success
    THEN IF retry_failed THEN WithoutFailed(failed, filename) ELSE failed
    ELSE Append(failed, filename)

\* progress.pending when the file stays in it
PendingAfterKept(pending, filename) == pending

\* if filename in progress.pending: progress.pending.remove(filename)
PendingAfter(pending, filename) == RemoveFirst(pending, filename)

\* batch_process_pdfs up to the thread pool: load or create the progress
\* record, filter by mode, apply the limit; the early returns end the run
StartRun(m, lim, bs) ==
    /\ bpc = "idle"
    /\ runs < MaxRuns
    /\ runs' = runs + 1
    /\ mode' = m
    /\ limit' = lim
    /\ batch_size' = bs
    /\ LET read == IF m = "fresh" THEN NoFile ELSE progress_file
           start == IF read = NoFile THEN NewProgress ELSE read
           pend == IF m = "retry_failed" THEN RetryPending(start.failed)
                   ELSE ResumePending(start.completed)
           items == ApplyLimit(pend, lim)
           prog == IF m = "retry_failed" THEN start
                   ELSE [start EXCEPT !.pending = pend]
       IN /\ loaded' = start
          /\ IF (m = "retry_failed" /\ read = NoFile) \/ items = <<>>
             THEN /\ bpc' = "idle"
                  /\ file_items' = <<>>
                  /\ UNCHANGED progress
             ELSE /\ bpc' = "running"
                  /\ file_items' = items
                  /\ progress' = prog
    /\ batch_start' = 0
    /\ futures' = {}
    /\ submitted' = <<>>
    /\ succeeded' = {}
    /\ failedNow' = {}
    /\ UNCHANGED progress_file
    /\ UNCHANGED nonB

\* a batch that starts again at the first file
BatchFilesFromFirst(items, first, last) == SubSeq(items, 1, last)

\* file_items[batch_start:batch_end]
BatchFiles(items, first, last) == SubSeq(items, first + 1, last)

\* executor.submit for every file of the next batch
SubmitBatch ==
    /\ bpc = "running"
    /\ futures = {}
    /\ batch_start < Len(file_items)
    /\ LET batch_end == IF batch_start + batch_size < Len(file_items)
                        THEN batch_start + batch_size ELSE Len(file_items)
           batch_files == BatchFiles(file_items, batch_start, batch_end)
       IN /\ futures' = ToSet(batch_files)
          /\ submitted' = submitted \o batch_files
          /\ batch_start' = batch_start + batch_size
    /\ UNCHANGED <<progress_file, bpc, mode, limit, batch_size, progress,
                   file_items, runs, loaded, succeeded, failedNow>>
    /\ UNCHANGED nonB

\* one round of `for future in as_completed(future_to_file)`: the outcome is
\* recorded in the progress record and the record is saved
Collect(filename, success) ==
    /\ bpc = "running"
    /\ filename \in futures
    /\ futures' = futures \ {filename}
    /\ LET done == IF success THEN Append(progress.completed, filename)
                   ELSE progress.completed
           fail == FailedAfter(progress.failed, filename, success,
                               mode = "retry_failed")
           pend == PendingAfter(progress.pending, filename)
           prog == [completed |-> done, failed |-> fail, pending |-> pend]
       IN /\ progress' = prog
          /\ progress_file' = prog
    /\ succeeded' = IF success THEN succeeded \cup {filename} ELSE succeeded
    /\ failedNow' = IF success THEN failedNow ELSE failedNow \cup {filename}
    /\ UNCHANGED <<bpc, mode, limit, batch_size, file_items, batch_start, runs,
                   submitted, loaded>>
    /\ UNCHANGED nonB

\* all batches are collected: the final save and the summary
FinishRun ==
    /\ bpc = "running"
    /\ futures = {}
    /\ batch_start >= Len(file_items)
    /\ progress_file' = progress
    /\ bpc' = "idle"
    /\ UNCHANGED <<mode, limit, batch_size, progress, file_items, batch_start,
                   futures, runs, submitted, loaded, succeeded, failedNow>>
    /\ UNCHANGED nonB

BStart ==
    /\ progress_file = NoFile
    /\ bpc = "idle"
    /\ mode = "fresh"
    /\ limit = 0
    /\ batch_size = 1
    /\ progress = NewProgress
    /\ file_items = <<>>
    /\ batch_start = 0
    /\ futures = {}
    /\ runs = 0
    /\ submitted = <<>>
    /\ loaded = NewProgress
    /\ succeeded = {}
    /\ failedNow = {}

BStartRun == \E m \in Modes, lim \in 0..NumFiles, bs \in 1..MaxBatchSize :
    StartRun(m, lim, bs)

BCollect == \E filename \in Files, success \in BOOLEAN : Collect(filename, success)

\* the run is over: it has returned and nothing is left to submit
RunOver == bpc = "idle" /\ runs > 0

NoDuplicates(s) == \A i, j \in 1..Len(s) : s[i] = s[j] => i = j

\* files of the run that are not in the completed list it started from
Todo == Files \ ToSet(loaded.completed)

\* C8 as stated: a finished resume run has submitted exactly the files that
\* are not in the loaded completed list, and never one that is in it
C8_ResumeExact ==
    mode = "resume" =>
        /\ ToSet(submitted) \cap ToSet(loaded.completed) = {}
        /\ RunOver => ToSet(submitted) = Todo

\* C8: a resume run never submits a file of the loaded completed list, and
\* when it is over it has submitted, each once, the files that are not in
\* that list, or the first `limit` of them when a limit below their number
\* is given
C8_ResumeUpToLimit ==
    mode = "resume" =>
        /\ ToSet(submitted) \cap ToSet(loaded.completed) = {}
        /\ NoDuplicates(submitted)
        /\ RunOver =>
              IF limit = 0 \/ limit >= Cardinality(Todo)
              THEN ToSet(submitted) = Todo
              ELSE /\ ToSet(submitted) \subseteq Todo
                   /\ Len(submitted) = limit
                   /\ \A f \in ToSet(submitted), g \in Todo \ ToSet(submitted) : f < g

\* a resume run that started from a record with completed files is over and
\* has processed the remaining ones
C8_Witness ==
    /\ mode = "resume"
    /\ RunOver
    /\ loaded.completed # <<>>
    /\ submitted # <<>>

\* C9: a retry-failed run processes only files listed in failed, none that
\* is in completed, and a file leaves failed only when its retry succeeded
C9_RetryFailedOnly ==
    mode = "retry_failed" =>
        /\ ToSet(submitted) \subseteq ToSet(loaded.failed)
        /\ ToSet(submitted) \cap ToSet(loaded.completed) = {}
        /\ \A f \in ToSet(loaded.failed) :
              f \notin ToSet(progress.failed) => f \in succeeded
        /\ failedNow \subseteq ToSet(progress.failed)

\* C10: the persisted completed list holds no id twice, and no completed id
\* is in pending
C10_CompletedIsSet ==
    progress_file # NoFile =>
        /\ NoDuplicates(progress_file.completed)
        /\ ToSet(progress_file.completed) \cap ToSet(progress_file.pending) = {}

\* C14: a run that has entered the thread pool ends with the final save and
\* the summary, and when it is over every file selected for it is in
\* completed or in failed of the saved record, whatever the workers returned
C14_BatchTerminates ==
    /\ []((RunOver /\ file_items # <<>>) =>
             /\ progress_file = progress
             /\ ToSet(file_items) \subseteq
                   ToSet(progress.completed) \cup ToSet(progress.failed))
    /\ (bpc = "running") ~> (bpc = "idle")

\* a run is over in which one file failed and a later one succeeded
C14_Witness ==
    /\ RunOver
    /\ failedNow # {}
    /\ succeeded # {}
    /\ Len(file_items) = NumFiles
    /\ \E f \in failedNow, g \in succeeded : f < g

\* ------------------------------------------------------------------------
\* batch_process_pdfs and main across crashes, with the export (cli.py)
\* ------------------------------------------------------------------------
\* files with a row in results_collector, which lives in memory: every
\* return path of process_single_pdf_batch adds one row
MemoryRows == succeeded \cup failedNow

\* batch_process_pdfs has returned rows that main has not exported yet
ExportDue == bpc = "idle" /\ ~(MemoryRows \subseteq b_exported)

\* the process dies inside the thread pool loop or before the export: the
\* progress file stays as last saved, the rows of the run are lost
BCrash ==
    /\ bpc = "running" \/ ExportDue
    /\ bpc' = "idle"
    /\ succeeded' = {}
    /\ failedNow' = {}
    /\ UNCHANGED <<progress_file, mode, limit, batch_size, progress, file_items,
                   batch_start, futures, runs, submitted, loaded>>
    /\ UNCHANGED nonB

\* main after batch_process_pdfs returned: export_results writes the rows
\* of the run, nothing when there is none
MainExport ==
    /\ ExportDue
    /\ b_exported' = b_exported \cup MemoryRows
    /\ UNCHANGED nonMX

\* the command is run again once the previous process has ended
MainRun ==
    /\ ~ExportDue
    /\ BStartRun

MXStart == b_exported = {}

\* the run has gone through every batch, has returned and was exported
RunExported ==
    /\ bpc = "idle"
    /\ file_items # <<>>
    /\ ToSet(file_items) = MemoryRows
    /\ MemoryRows \subseteq b_exported

\* C21: in every checkpoint written, whatever the run modes and crashes
\* before it, no id is in both completed and pending
C21_CompletedNotPending ==
    progress_file # NoFile =>
        ToSet(progress_file.completed) \cap ToSet(progress_file.pending) = {}

\* a checkpoint of a retry-failed run: a file that had failed is completed
\* now, another file is still pending
C21_Witness ==
    /\ mode = "retry_failed"
    /\ bpc = "running"
    /\ progress_file = progress
    /\ succeeded # {}
    /\ progress_file.pending # <<>>
    /\ succeeded \subseteq ToSet(loaded.failed)

C28_CompletedAreExported ==
    (mode = "resume" /\ RunExported /\ progress_file # NoFile) =>
        ToSet(progress_file.completed) \subseteq b_exported

\* C22: in every checkpoint every file is in exactly one of completed and
\* pending, a file whose processing failed included
C22_CompletedOrPending ==
    progress_file # NoFile =>
        \A f \in Files :
            (f \in ToSet(progress_file.completed)) #
                (f \in ToSet(progress_file.pending))

\* C23: when a run is over no id is in both completed and failed of the
\* persisted record: a success removes the entries of the file from failed
\* in a resume run as in a retry-failed run
C23_SuccessClearsFailed ==
    (RunOver /\ progress_file # NoFile) =>
        ToSet(progress_file.completed) \cap ToSet(progress_file.failed) = {}

\* C29: after any sequence of runs the persisted failed list holds at most
\* one entry per file
C29_FailedOncePerId ==
    progress_file # NoFile => NoDuplicates(progress_file.failed)

\* ------------------------------------------------------------------------
\* BatchProgress.save_to_file and load_from_file across a crash (cli.py)
\* ------------------------------------------------------------------------
\* a progress file that open(filepath, 'w') has truncated, or that holds only
\* a part of the JSON text: json.load raises on it
Unparsable == [unparsable |-> TRUE]

\* the value None of `progress`
NoProgress == [none |-> TRUE]

\* no restart has happened yet
NotLoaded == [notloaded |-> TRUE]

\* the `data` dict that save_to_file dumps, with the fields the run reads back
SavedData(prog) ==
    [completed |-> prog.completed, failed |-> prog.failed,
     pending |-> prog.pending, completion_rate |-> Len(prog.completed)]

\* BatchProgress.load_from_file: None when the file is absent or when reading
\* it raises, else the record built from the fields of the file
LoadFromFile(file) ==
    IF file = NoFile \/ file = Unparsable THEN NoProgress
    ELSE [completed |-> file.completed, failed |-> file.failed,
          pending |-> file.pending]

\* one outcome of the collect loop is recorded in the progress object and
\* save_to_file opens the progress file for writing, which truncates it
PSRecord(filename, success) ==
    /\ pspc = "running"
    /\ psOutcomes < MaxOutcomes
    /\ filename \in ToSet(ps_progress.pending)
    /\ psOutcomes' = psOutcomes + 1
    /\ ps_progress' =
          [completed |-> IF success THEN Append(ps_progress.completed, filename)
                         ELSE ps_progress.completed,
           failed |-> IF success THEN ps_progress.failed
                      ELSE Append(ps_progress.failed, filename),
           pending |-> RemoveFirst(ps_progress.pending, filename)]
    /\ ps_file' = Unparsable
    /\ pspc' = "writing"
    /\ UNCHANGED <<psSaved, psLoaded>>
    /\ UNCHANGED nonPS

\* json.dump has written the whole document and the file is closed:
\* save_to_file returns
PSDump ==
    /\ pspc = "writing"
    /\ ps_file' = SavedData(ps_progress)
    /\ pspc' = "running"
    /\ psSaved' = [completed |-> psSaved.completed \cup ToSet(ps_progress.completed),
                   failed |-> psSaved.failed \cup ToSet(ps_progress.failed)]
    /\ UNCHANGED <<ps_progress, psOutcomes, psLoaded>>
    /\ UNCHANGED nonPS

\* the process dies; what it held in memory is gone, the file stays as it is
PSCrash ==
    /\ pspc \in {"running", "writing"}
    /\ pspc' = "crashed"
    /\ ps_progress' = NoProgress
    /\ UNCHANGED <<ps_file, psOutcomes, psSaved, psLoaded>>
    /\ UNCHANGED nonPS

\* batch_process_pdfs is started again with --resume: the progress record is
\* loaded, or created anew when load_from_file returns None
PSRestart ==
    /\ pspc = "crashed"
    /\ LET read == LoadFromFile(ps_file)
           start == IF read = NoProgress THEN NewProgress ELSE read
       IN /\ psLoaded' = [record |-> read, saved |-> psSaved]
          /\ ps_progress' = [start EXCEPT !.pending = ResumePending(start.completed)]
    /\ pspc' = "running"
    /\ UNCHANGED <<ps_file, psOutcomes, psSaved>>
    /\ UNCHANGED nonPS

PSStart ==
    /\ ps_file = NoFile
    /\ ps_progress = NewProgress
    /\ pspc = "running"
    /\ psOutcomes = 0
    /\ psSaved = [completed |-> {}, failed |-> {}]
    /\ psLoaded = NotLoaded

PSCollect == \E filename \in Files, success \in BOOLEAN : PSRecord(filename, success)

\* C11: at a restart after a crash, load_from_file returns a record that
\* holds every completed and every failed id whose save_to_file had returned
\* before the crash, and it returns a record whenever there is such an id
C11_SavedOutcomesSurvive ==
    psLoaded # NotLoaded =>
        LET record == IF psLoaded.record = NoProgress THEN NewProgress
                      ELSE psLoaded.record
        IN /\ psLoaded.saved.completed \subseteq ToSet(record.completed)
           /\ psLoaded.saved.failed \subseteq ToSet(record.failed)
           /\ (psLoaded.saved.completed \cup psLoaded.saved.failed # {})
                 => psLoaded.record # NoProgress

\* number of outcomes a progress file holds
PersistedOutcomes(file) ==
    IF file = NoFile \/ file = Unparsable THEN 0
    ELSE Len(file.completed) + Len(file.failed)

\* C24: the progress record is on disk after each outcome before the next
\* one is handled, and after a crash at any point the persisted record
\* lacks at most the outcome that was being handled
C24_CrashLosesInFlightOnly ==
    /\ (pspc = "running" /\ psOutcomes > 0) =>
           PersistedOutcomes(ps_file) =
               Len(ps_progress.completed) + Len(ps_progress.failed)
    /\ pspc = "crashed" => psOutcomes - PersistedOutcomes(ps_file) <= 1

\* ------------------------------------------------------------------------
\* batch_process_documents and process_document_worker (meta_ghpl_gpt5.py)
\* ------------------------------------------------------------------------
\* what can happen to one document inside process_document_worker
WorkerOutcomes == {"no_upload", "not_found", "extracted", "rejected", "api_error"}

\* the value None returned by process_document_worker
NoResult == [result |-> "None"]

NoStats == [stats |-> "None"]

\* return value of process_document_worker:
\*   no_upload  upload_pdf_subset returned (None, None)
\*   not_found  upload_pdf_subset raised, the except branch builds the row
\*   extracted  process_document_with_chat returned the metadata
\*   rejected   it returned (None, assessment, cost)
\*   api_error  it caught an exception and returned (None, None)
WorkerResult(pdf_path, outcome) ==
    IF outcome = "no_upload" THEN NoResult
    ELSE IF outcome = "not_found"
    THEN [filename |-> pdf_path, success |-> FALSE, processed |-> FALSE,
          relevance_response |-> FALSE]
    ELSE [filename |-> pdf_path, success |-> outcome = "extracted",
          processed |-> TRUE, relevance_response |-> outcome # "api_error"]

\* number of rows of a result list that belong to one file
RowsOf(results, f) == Cardinality({i \in 1..Len(results) : results[i].filename = f})

\* batch_process_documents up to the submission of every file: the files
\* named in the most recent CSV are skipped, then the limit is applied
G5Run(lim) ==
    /\ g5pc \in {"idle", "finished"}
    /\ LET processed_files == {g5_csv[i].filename : i \in 1..Len(g5_csv)}
           remaining == SelectSeqBy(PdfFiles, Files \ processed_files)
           pdf_files == IF lim # 0 THEN SubSeq(remaining, 1, IF lim < Len(remaining)
                                                           THEN lim ELSE Len(remaining))
                        ELSE remaining
       IN IF remaining = <<>>
          THEN /\ g5pc' = "idle"
               /\ UNCHANGED <<g5_files, g5_futures, g5_results, g5_stats>>
          ELSE /\ g5pc' = "running"
               /\ g5_files' = pdf_files
               /\ g5_futures' = ToSet(pdf_files)
               /\ g5_results' = <<>>
               /\ g5_stats' = NoStats
    /\ UNCHANGED g5_csv
    /\ UNCHANGED nonG5

\* one round of `for future in as_completed(future_to_file)`
G5Collect(pdf_path, outcome) ==
    /\ g5pc = "running"
    /\ pdf_path \in g5_futures
    /\ g5_futures' = g5_futures \ {pdf_path}
    /\ LET result == WorkerResult(pdf_path, outcome)
       IN IF result # NoResult
          THEN /\ g5_csv' = Append(g5_csv, result)
               /\ g5_results' = Append(g5_results, result)
          ELSE UNCHANGED <<g5_csv, g5_results>>
    /\ UNCHANGED <<g5pc, g5_files, g5_stats>>
    /\ UNCHANGED nonG5

\* the pool is drained: the final statistics are computed and printed
G5Finish ==
    /\ g5pc = "running"
    /\ g5_futures = {}
    /\ g5pc' = "finished"
    /\ LET processed ==
               Cardinality({i \in 1..Len(g5_results) : g5_results[i].processed})
           extracted ==
               Cardinality({i \in 1..Len(g5_results) : g5_results[i].success})
       IN g5_stats' = [total_files |-> Len(g5_files),
                       extracted |-> extracted,
                       rejected |-> processed - extracted,
                       failed |-> Len(g5_results) - processed]
    /\ UNCHANGED <<g5_csv, g5_files, g5_futures, g5_results>>
    /\ UNCHANGED nonG5

G5Start ==
    /\ g5pc = "idle"
    /\ g5_csv = <<>>
    /\ g5_files = <<>>
    /\ g5_futures = {}
    /\ g5_results = <<>>
    /\ g5_stats = NoStats

G5StartRun == \E lim \in 0..NumFiles : G5Run(lim)

G5CollectAny == \E pdf_path \in Files, outcome \in WorkerOutcomes :
    G5Collect(pdf_path, outcome)

\* C12: when a batch run is over, every file selected for it has exactly one
\* row in the results of the run, and no file ever has two
C12_OneRowPerItem ==
    /\ \A f \in Files : RowsOf(g5_results, f) <= 1
    /\ g5pc = "finished" => \A f \in ToSet(g5_files) : RowsOf(g5_results, f) = 1

\* C30: a document whose API calls failed, which has no relevance
\* assessment, is reported with processed = False, and the final statistics
\* count as rejected only documents that the relevance assessment rejected
C30_ApiFailureIsFailure ==
    /\ \A i \in 1..Len(g5_results) :
          ~g5_results[i].relevance_response => ~g5_results[i].processed
    /\ g5pc = "finished" =>
          g5_stats.rejected =
              Cardinality({i \in 1..Len(g5_results) :
                              /\ g5_results[i].relevance_response
                              /\ ~g5_results[i].success})

\* ------------------------------------------------------------------------
\* categorize_error (cli.py)
\* ------------------------------------------------------------------------
\* error_msg_lower is modelled by the set of the keywords it contains
RateLimitKeywords == {"rate limit", "429", "quota", "limit exceeded"}
UnavailableKeywords == {"503", "service unavailable", "timeout", "connection"}
AuthenticationKeywords == {"authentication", "unauthorized", "401", "api key"}
PermissionKeywords == {"permission", "access denied"}
PdfKeywords == {"pdf", "pikepdf", "corrupt", "invalid format"}
ParsingKeywords == {"json", "validation", "pydantic"}
ResourceKeywords == {"memory", "out of memory", "resource"}

\* the dict returned by categorize_error, without the suggestion text
Category(category, severity, retryable, confidence) ==
    [category |-> category, severity |-> severity, retryable |-> retryable,
     confidence |-> confidence]

\* the string-based detection, used after the status rules
CategorizeByMessage(error_type, msg) ==
    IF msg \cap RateLimitKeywords # {}
    THEN Category("rate_limit", "medium", TRUE, "medium")
    ELSE IF msg \cap UnavailableKeywords # {}
    THEN Category("service_unavailable", "medium", TRUE, "medium")
    ELSE IF msg \cap AuthenticationKeywords # {}
    THEN Category("authentication", "high", FALSE, "medium")
    ELSE IF error_type = "FileNotFoundError" \/ "not found" \in msg
    THEN Category("file_not_found", "high", FALSE, "none")
    ELSE IF msg \cap PermissionKeywords # {}
    THEN Category("permission_error", "high", FALSE, "none")
    ELSE IF msg \cap PdfKeywords # {}
    THEN Category("pdf_processing", "medium", TRUE, "none")
    ELSE IF msg \cap ParsingKeywords # {}
    THEN Category("parsing_error", "medium", TRUE, "none")
    ELSE IF msg \cap ResourceKeywords # {}
    THEN Category("resource_exhaustion", "high", FALSE, "none")
    ELSE Category("unknown", "medium", TRUE, "low")

\* categorize_error(error_type, error_message, error_details); http_status
\* is None when error_details carries no status (or the status 0)
CategorizeError(error_type, msg, http_status) ==
    IF http_status # None /\ http_status # 0 /\ http_status = 429
    THEN Category("rate_limit", "medium", TRUE, "high")
    ELSE IF http_status # None /\ http_status \in {401, 403}
    THEN Category("authentication", "high", FALSE, "high")
    ELSE IF http_status # None /\ http_status \in {503, 502, 504}
    THEN Category("service_unavailable", "medium", TRUE, "high")
    ELSE IF http_status # None /\ http_status # 0 /\ http_status >= 500
    THEN Category("server_error", "medium", TRUE, "high")
    ELSE IF http_status # None /\ http_status \in {400, 422}
    THEN Category("client_error", "high", FALSE, "high")
    ELSE CategorizeByMessage(error_type, msg)

\* the statuses and messages the calls are made with
CEStatuses == {None, 400, 401, 403, 404, 408, 422, 429, 500, 501, 502, 503, 504}
CEKeywords == {"rate limit", "503", "401", "not found", "pdf"}
CETypes == {"Exception", "FileNotFoundError"}

NoArgs == [args |-> "None"]

\* the call of categorize_error; the function keeps no state, so one call
\* is made in a behaviour
CECall(error_type, msg, http_status) ==
    /\ ce_args = NoArgs
    /\ ce_args' = [error_type |-> error_type, error_message |-> msg,
                   http_status |-> http_status]
    /\ ce_result' = CategorizeError(error_type, msg, http_status)
    /\ UNCHANGED nonCE

CEStart ==
    /\ ce_args = NoArgs
    /\ ce_result = NoResult

CECategorize == \E error_type \in CETypes, msg \in SUBSET CEKeywords,
                   http_status \in CEStatuses :
    CECall(error_type, msg, http_status)

\* C18: a call with an HTTP status is classified by the status alone: 429
\* rate_limit, 502/503/504 service_unavailable, other 5xx server_error (all
\* retryable), 401/403 authentication, 400/422 client_error (both fatal),
\* and the result is the one the same call gives with an empty message
C18_StatusAlone ==
    (ce_args # NoArgs /\ ce_args.http_status # None) =>
        LET status == ce_args.http_status
        IN /\ status = 429 =>
                 ce_result.category = "rate_limit" /\ ce_result.retryable
           /\ status \in {502, 503, 504} =>
                 ce_result.category = "service_unavailable" /\ ce_result.retryable
           /\ (status >= 500 /\ status \notin {502, 503, 504}) =>
                 ce_result.category = "server_error" /\ ce_result.retryable
           /\ status \in {401, 403} =>
                 ce_result.category = "authentication" /\ ~ce_result.retryable
           /\ status \in {400, 422} =>
                 ce_result.category = "client_error" /\ ~ce_result.retryable
           /\ ce_result = CategorizeError(ce_args.error_type, {}, status)

\* ------------------------------------------------------------------------
\* A batch of three items through batch_process_pdfs, process_single_pdf_batch
\* and get_metadata_from_gemini (cli.py, get_metadata.py)
\* ------------------------------------------------------------------------
ScenarioItems == {1, 2, 3}

\* what the n-th call of client.models.generate_content for an item does:
\* item 1 succeeds, item 2 fails twice with 503 and then succeeds, item 3
\* fails with 401 every time
ScenarioCall(item, n) ==
    IF item = 1 \/ (item = 2 /\ n > 2) THEN [ok |-> TRUE, msg |-> {}]
    ELSE IF item = 2 THEN [ok |-> FALSE, msg |-> {"503", "unavailable"}]
    ELSE [ok |-> FALSE, msg |-> {"401"}]

\* str(failure).lower() of an entry of progress.failed, as the set of the
\* keywords of categorize_error it contains: the name of the PDF file
FailureMessage(failure) == {"pdf"}

\* the category generate_failure_analysis gives an entry of progress.failed
FailureCategory(failure) ==
    CategorizeError(failure.error, FailureMessage(failure), None).category

\* executor.submit for the three files of the batch
SCSubmit ==
    /\ \A i \in ScenarioItems : sc_pc[i] = "queued"
    /\ sc_pc' = [i \in ScenarioItems |-> "extract"]
    /\ UNCHANGED <<sc_retry_count, sc_retry, sc_calls, sc_rows, sc_progress,
                   sc_file, sc_summary>>
    /\ UNCHANGED nonSC

\* one extraction call of an item, with what the two retry loops do with
\* its outcome: return the metadata, retry the call, retry the item, or add
\* the error row and return False
SCExtract(i) ==
    /\ sc_pc[i] = "extract"
    /\ sc_calls' = [sc_calls EXCEPT ![i] = @ + 1]
    /\ LET call == ScenarioCall(i, sc_calls[i] + 1)
           m == WorkerMaxRetries(DefaultMaxRetries)
           rc == sc_retry_count[i]
       IN IF call.ok
          THEN /\ sc_rows' = Append(sc_rows, [filename |-> i, metadata |-> TRUE,
                                              retry_count |-> rc,
                                              error_type |-> "none"])
               /\ sc_pc' = [sc_pc EXCEPT ![i] = "True"]
               /\ UNCHANGED <<sc_retry_count, sc_retry>>
          ELSE IF ShouldRetryCall(call.msg) /\ sc_retry[i] < m
          THEN /\ sc_retry' = [sc_retry EXCEPT ![i] = @ + 1]
               /\ UNCHANGED <<sc_pc, sc_retry_count, sc_rows>>
          ELSE IF ~ShouldRetryItem("Exception", FALSE, rc, m) \/ rc >= m
          THEN /\ sc_rows' = Append(sc_rows, [filename |-> i, metadata |-> FALSE,
                                              retry_count |-> rc,
                                              error_type |-> "Exception"])
               /\ sc_pc' = [sc_pc EXCEPT ![i] = "False"]
               /\ UNCHANGED <<sc_retry_count, sc_retry>>
          ELSE /\ sc_retry_count' = [sc_retry_count EXCEPT ![i] = @ + 1]
               /\ sc_retry' = [sc_retry EXCEPT ![i] = 0]
               /\ UNCHANGED <<sc_pc, sc_rows>>
    /\ UNCHANGED <<sc_progress, sc_file, sc_summary>>
    /\ UNCHANGED nonSC

\* one round of the collect loop: the outcome goes into the progress record
\* and the record is saved
SCCollect(i) ==
    /\ sc_pc[i] \in {"True", "False"}
    /\ sc_pc' = [sc_pc EXCEPT ![i] = "collected"]
    /\ LET prog == [completed |-> IF sc_pc[i] = "True"
                                  THEN Append(sc_progress.completed, i)
                                  ELSE sc_progress.completed,
                    failed |-> IF sc_pc[i] = "True" THEN sc_progress.failed
                               ELSE Append(sc_progress.failed,
                                           [filename |-> i,
                                            error |-> "Processing failed"]),
                    pending |-> RemoveFirst(sc_progress.pending, i)]
       IN /\ sc_progress' = prog
          /\ sc_file' = SavedData(prog)
    /\ UNCHANGED <<sc_retry_count, sc_retry, sc_calls, sc_rows, sc_summary>>
    /\ UNCHANGED nonSC

\* the final save and results_collector.get_summary()
SCFinish ==
    /\ \A i \in ScenarioItems : sc_pc[i] = "collected"
    /\ sc_summary = NoStats
    /\ sc_file' = SavedData(sc_progress)
    /\ LET successful ==
               Cardinality({i \in 1..Len(sc_rows) : sc_rows[i].metadata})
       IN sc_summary' = [total_processed |-> Len(sc_rows),
                         successful |-> successful,
                         failed |-> Len(sc_rows) - successful]
    /\ UNCHANGED <<sc_pc, sc_retry_count, sc_retry, sc_calls, sc_rows, sc_progress>>
    /\ UNCHANGED nonSC

SCStart ==
    /\ sc_pc = [i \in ScenarioItems |-> "queued"]
    /\ sc_retry_count = [i \in ScenarioItems |-> 0]
    /\ sc_retry = [i \in ScenarioItems |-> 0]
    /\ sc_calls = [i \in ScenarioItems |-> 0]
    /\ sc_rows = <<>>
    /\ sc_progress = [completed |-> <<>>, failed |-> <<>>, pending |-> <<1, 2, 3>>]
    /\ sc_file = NoFile
    /\ sc_summary = NoStats

SCWorker == \E i \in ScenarioItems : SCExtract(i)

SCCollectAny == \E i \in ScenarioItems : SCCollect(i)

\* C13: in the batch of three, the final summary reports 2 succeeded and 1
\* failed, the persisted failed list holds exactly item 3 with the category
\* authentication, and the retry count recorded for item 2 is 2
C13_ThreeItemBatch ==
    sc_summary # NoStats =>
        /\ sc_summary.successful = 2
        /\ sc_summary.failed = 1
        /\ Len(sc_file.failed) = 1
        /\ sc_file.failed[1].filename = 3
        /\ FailureCategory(sc_file.failed[1]) = "authentication"
        /\ \A k \in 1..Len(sc_rows) :
              sc_rows[k].filename = 2 => sc_rows[k].retry_count = 2

\* ------------------------------------------------------------------------
\* BatchResults.export_results (cli.py)
\* ------------------------------------------------------------------------
\* a missing value of a DataFrame, and an empty cell of the Excel sheet
NaN == "NaN"
EmptyCell == "(empty)"

\* the row export_results builds from one entry of self.results: a failed
\* entry carries error_type, a successful one has no such column
ExportRow(result) ==
    [filename |-> result.filename, timestamp |-> result.timestamp,
     success |-> result.metadata,
     error_type |-> IF result.metadata THEN NaN ELSE result.error_type]

\* pd.DataFrame(export_data)
DataFrame(results) == [i \in 1..Len(results) |-> ExportRow(results[i])]

\* DataFrame.to_excel: a missing value and an empty string give an empty cell
ToExcel(df) ==
    [i \in 1..Len(df) |->
        [df[i] EXCEPT !.error_type = IF @ = NaN \/ @ = "" THEN EmptyCell ELSE @]]

\* pd.read_excel: an empty cell is read as a missing value
ReadExcel(sheet) ==
    [i \in 1..Len(sheet) |->
        [sheet[i] EXCEPT !.error_type = IF @ = EmptyCell THEN NaN ELSE @]]

RowKey(row) == <<row.filename, row.timestamp>>

Keys(df) == {RowKey(df[i]) : i \in 1..Len(df)}

\* the positions a drop_duplicates(keep='last') on the key columns keeps
LastOfKey(df) ==
    {i \in 1..Len(df) : \A j \in 1..Len(df) : RowKey(df[j]) = RowKey(df[i]) => j <= i}

RECURSIVE PickRows(_, _, _)
PickRows(df, keep, i) ==
    IF i > Len(df) THEN <<>>
    ELSE IF i \in keep THEN <<df[i]>> \o PickRows(df, keep, i + 1)
    ELSE PickRows(df, keep, i + 1)

\* the concatenation written back without dropping anything
KeepAllRows(df) == df

\* combined_df.drop_duplicates(subset=['filename', 'timestamp'], keep='last')
DropDuplicates(df) == PickRows(df, LastOfKey(df), 1)

\* the Excel file at output_path: absent, or a sheet of rows
NoSheet == [exists |-> FALSE, sheet |-> <<>>]
Sheet(cells) == [exists |-> TRUE, sheet |-> cells]

\* the target after export_results(output_path, append_mode)
ExportResults(results, target, append_mode) ==
    IF results = <<>> THEN target
    ELSE IF append_mode /\ target.exists
    THEN Sheet(ToExcel(DropDuplicates(ReadExcel(target.sheet) \o DataFrame(results))))
    ELSE Sheet(ToExcel(DataFrame(results)))

\* an entry of self.results
ResultEntry(filename, timestamp, metadata) ==
    [filename |-> filename, timestamp |-> timestamp, metadata |-> metadata,
     error_type |-> IF metadata THEN "none" ELSE ""]

\* the results of a first run, five rows, and of a later collector holding
\* the last of them and two new rows
FirstExport == [i \in 1..5 |-> ResultEntry(1, i, i # 2)]
SecondExport == [i \in 1..3 |-> ResultEntry(1, i + 4, i # 3)]

\* the entries of the short result lists
ShortEntries == {ResultEntry(f, 1, m) : f \in 1..2, m \in BOOLEAN}

\* the result lists export_results is called with: the two above and every
\* list of at most two entries with different keys
ResultLists ==
    {FirstExport, SecondExport, <<>>}
    \cup {<<e>> : e \in ShortEntries}
    \cup {p \in ShortEntries \X ShortEntries :
              <<p[1].filename, p[1].timestamp>> # <<p[2].filename, p[2].timestamp>>}

NoExport == [export |-> "None"]

\* one call of export_results
Export(results, append_mode) ==
    /\ ex_count < MaxExports
    /\ ex_count' = ex_count + 1
    /\ ex_target' = ExportResults(results, ex_target, append_mode)
    /\ ex_last' = [append_mode |-> append_mode, results |-> results,
                   before |-> ex_target]
    /\ UNCHANGED nonEX

EXStart ==
    /\ ex_target = NoSheet
    /\ ex_last = NoExport
    /\ ex_count = 0

EXExport == \E results \in ResultLists, append_mode \in BOOLEAN :
    Export(results, append_mode)

Pdf == <<".", "p", "d", "f">>

\* the characters of the file names
NameChars == {"a", " ", "(", ")", "_", "."}

Names == UNION {[1..n -> NameChars] : n \in 1..MaxNameLen}

\* the percent-encoding of a character in the URLs of the reference file
QuoteChar(c) ==
    IF c = " " THEN <<"%", "2", "0">>
    ELSE IF c = "(" THEN <<"%", "2", "8">>
    ELSE IF c = ")" THEN <<"%", "2", "9">>
    ELSE <<c>>

RECURSIVE Quote(_)
Quote(str) == IF str = <<>> THEN <<>> ELSE QuoteChar(Head(str)) \o Quote(Tail(str))

\* the character a %xx escape stands for
Unescape(h1, h2) ==
    IF h1 = "2" /\ h2 = "0" THEN " "
    ELSE IF h1 = "2" /\ h2 = "8" THEN "("
    ELSE IF h1 = "2" /\ h2 = "9" THEN ")"
    ELSE "%"

HexPairs == {<<"2", "0">>, <<"2", "8">>, <<"2", "9">>, <<"2", "5">>}

\* urllib.parse.unquote
RECURSIVE Unquote(_)
Unquote(str) ==
    IF str = <<>> THEN <<>>
    ELSE IF Head(str) = "%" /\ Len(str) >= 3 /\ <<str[2], str[3]>> \in HexPairs
    THEN <<Unescape(str[2], str[3])>> \o Unquote(SubSeq(str, 4, Len(str)))
    ELSE <<Head(str)>> \o Unquote(Tail(str))

\* str.replace(old, new) for a three-character old and a one-character new
RECURSIVE Replace3(_, _, _)
Replace3(str, old, new) ==
    IF Len(str) < 3 THEN str
    ELSE IF SubSeq(str, 1, 3) = old
    THEN <<new>> \o Replace3(SubSeq(str, 4, Len(str)), old, new)
    ELSE <<Head(str)>> \o Replace3(Tail(str), old, new)

\* str.replace(old, new) for single characters
ReplaceChar(str, old, new) == [i \in 1..Len(str) |-> IF str[i] = old THEN new ELSE str[i]]

\* the greatest position of a character in a string, 0 when it is not there
LastIndex(str, c) ==
    IF \E i \in 1..Len(str) : str[i] = c
    THEN CHOOSE i \in 1..Len(str) :
             str[i] = c /\ \A j \in 1..Len(str) : str[j] = c => j <= i
    ELSE 0

\* the first position of one of the characters, Len + 1 when none is there
FirstIndex(str, chars) ==
    IF \E i \in 1..Len(str) : str[i] \in chars
    THEN CHOOSE i \in 1..Len(str) :
             str[i] \in chars /\ \A j \in 1..Len(str) : str[j] \in chars => i <= j
    ELSE Len(str) + 1

\* urlparse(url).path for a URL given from its path on
UrlPath(url) == SubSeq(url, 1, FirstIndex(url, {"?", "#"}) - 1)

\* os.path.basename and Path(...).name
Basename(path) == SubSeq(path, LastIndex(path, "/") + 1, Len(path))

\* Path(name).stem: the name without its last suffix
Stem(name) ==
    LET i == LastIndex(name, ".")
    IN IF 1 < i /\ i < Len(name) THEN SubSeq(name, 1, i - 1) ELSE name

\* the last segment of the URL path without its extension, not decoded
UrlKeyUndecoded(url) == Stem(Basename(UrlPath(url)))

\* the key load_ground_truth_metadata files a row with a URL under
UrlKey(url) ==
    LET filename == Stem(Basename(Unquote(UrlPath(url))))
    IN Replace3(Replace3(Replace3(filename, <<"%", "2", "0">>, " "),
                         <<"%", "2", "8">>, "("), <<"%", "2", "9">>, ")")

\* the value None of a field
NoValue == "None"

\* the fields compared; creator, doc_type, health_topic, country and language
\* are handled as title is, and the reference never has a level
FieldsToCompare == {"title", "year", "level"}

\* the reference values of a row and the extracted values of a document
ReferenceValues ==
    [title : {NoValue, "a", "B "}, year : {NoValue, "2020"}, level : {NoValue}]
ExtractedValues ==
    [title : {NoValue, "A", "b"}, year : {"2020"}, level : {NoValue}]

\* str(value).strip().lower()
Normalize(value) ==
    IF value = "A" THEN "a" ELSE IF value = "B " THEN "b" ELSE value

\* ext_norm: the empty string when nothing was extracted
NormalizeExtracted(value) == IF value = NoValue THEN "" ELSE Normalize(value)

\* load_ground_truth_metadata for a file with one row that has a URL
LoadGroundTruth(url, reference) == {[key |-> UrlKey(url), reference |-> reference]}

\* filename_variants of compare_with_ground_truth, in the order tried
FilenameVariants(pdf_filename) ==
    <<Stem(Basename(pdf_filename)), Basename(pdf_filename), pdf_filename,
      ReplaceChar(ReplaceChar(Stem(Basename(pdf_filename)), "_", " "), "-", " ")>>

\* correct_fields / total_fields as a percentage; the float 0.0 when
\* total_fields is 0
Accuracy(correct_fields, total_fields) ==
    [defined |-> TRUE,
     percent |-> IF total_fields > 0 THEN (100 * correct_fields) \div total_fields
                 ELSE 0]

\* a field is compared whatever the reference holds
ReferenceProvidesAlways(reference_value) == TRUE

\* if reference_value is not None
ReferenceProvides(reference_value) == reference_value # NoValue

\* ref_norm == ext_norm
FieldMatches(reference_value, extracted_value) ==
    Normalize(reference_value) = NormalizeExtracted(extracted_value)

\* compare_with_ground_truth(extracted_metadata, ground_truth, pdf_filename)
CompareWithGroundTruth(extracted, ground_truth, pdf_filename) ==
    LET variants == FilenameVariants(pdf_filename)
        keys == {e.key : e \in ground_truth}
        hits == {i \in 1..Len(variants) : variants[i] \in keys}
    IN IF hits = {}
       THEN [status |-> "no_reference", accuracy |-> NoValue,
             filename_tried |-> variants]
       ELSE LET first == CHOOSE i \in hits : \A j \in hits : i <= j
                filename_key == variants[first]
                reference == (CHOOSE e \in ground_truth : e.key = filename_key).reference
                compared == {f \in FieldsToCompare : ReferenceProvides(reference[f])}
                matches ==
                    {f \in compared : FieldMatches(reference[f], extracted[f])}
                discrepancies ==
                    {f \in compared : ~FieldMatches(reference[f], extracted[f])}
            IN [status |-> "compared", filename_key |-> filename_key,
                matches |-> matches, discrepancies |-> discrepancies,
                overall_accuracy |-> Accuracy(Cardinality(matches),
                                              Cardinality(compared))]

\* load_ground_truth_metadata reads the reference file: one row whose URL
\* ends in the percent-encoded name of a PDF file
GTLoad(name, query, reference) ==
    /\ gt_ground_truth = {}
    /\ LET url == <<"/", "d", "/">> \o Quote(name \o Pdf) \o query
       IN /\ gt_row' = [name |-> name, url |-> url, reference |-> reference]
          /\ gt_ground_truth' = LoadGroundTruth(url, reference)
    /\ UNCHANGED <<gt_call, gt_result, gt_search>>
    /\ UNCHANGED nonGT

\* compare_with_ground_truth for a local PDF file
GTCompare(pdf_filename, extracted) ==
    /\ gt_ground_truth # {}
    /\ gt_call = NoArgs
    /\ gt_call' = [pdf_filename |-> pdf_filename, extracted |-> extracted]
    /\ gt_result' = CompareWithGroundTruth(extracted, gt_ground_truth, pdf_filename)
    /\ UNCHANGED <<gt_ground_truth, gt_row, gt_search>>
    /\ UNCHANGED nonGT

\* process_pdf_with_validation with enable_search: the search resolves the
\* fields `resolved` of the discrepancies, and comparison_results keeps the
\* remaining ones when a field was resolved
GTResolve(resolved) ==
    /\ gt_call # NoArgs
    /\ gt_search = NoResult
    /\ gt_result.status = "compared"
    /\ gt_result.discrepancies # {}
    /\ resolved \subseteq gt_result.discrepancies
    /\ LET remaining == gt_result.discrepancies \ resolved
       IN /\ gt_search' = [resolved |-> resolved, remaining |-> remaining]
          /\ gt_result' = IF resolved # {}
                          THEN [gt_result EXCEPT !.discrepancies = remaining]
                          ELSE gt_result
    /\ UNCHANGED <<gt_ground_truth, gt_row, gt_call>>
    /\ UNCHANGED nonGT

GTStart ==
    /\ gt_ground_truth = {}
    /\ gt_row = NoArgs
    /\ gt_call = NoArgs
    /\ gt_result = NoResult
    /\ gt_search = NoResult

GTLoadFile == \E name \in Names, query \in {<<>>, <<"?", "v">>},
                 reference \in ReferenceValues :
    GTLoad(name, query, reference)

\* the local file carries the name of the reference row, or another name
GTCompareFile ==
    /\ gt_ground_truth # {}
    /\ \E pdf_filename \in {<<"p", "/">> \o gt_row.name \o Pdf,
                             <<"p", "/", "z">> \o Pdf},
          extracted \in ExtractedValues :
          GTCompare(pdf_filename, extracted)

\* C16: when the matched reference record has no value for any compared
\* field, the accuracy of the comparison is reported as undefined
C16_NoDenominatorUndefined ==
    (gt_call # NoArgs /\ gt_result.status = "compared"
        /\ gt_result.matches \cup gt_result.discrepancies = {}) =>
        ~gt_result.overall_accuracy.defined

\* C17: the row of a URL that ends in the percent-encoded name of a file is
\* filed under the decoded name without its extension, and the comparison
\* of a local file with that name finds the row
C17_DecodedStemIndexed ==
    /\ gt_ground_truth # {} =>
          {e.key : e \in gt_ground_truth} = {Stem(gt_row.name \o Pdf)}
    /\ (gt_call # NoArgs
          /\ Basename(gt_call.pdf_filename) = gt_row.name \o Pdf) =>
          /\ gt_result.status = "compared"
          /\ gt_result.filename_key = Stem(gt_row.name \o Pdf)

\* a row whose URL has %20, %28 and %29 was found for the local file
C17_Witness ==
    /\ gt_call # NoArgs
    /\ gt_result.status = "compared"
    /\ Basename(gt_call.pdf_filename) = gt_row.name \o Pdf
    /\ \E i \in 1..Len(gt_row.url) - 2 :
          SubSeq(gt_row.url, i, i + 2) \in {<<"%", "2", "8">>, <<"%", "2", "9">>}
    /\ \E i \in 1..Len(gt_row.url) - 2 :
          SubSeq(gt_row.url, i, i + 2) = <<"%", "2", "0">>

\* the search resolution applied to the discrepancies of the comparison
GTSearch == \E resolved \in SUBSET FieldsToCompare : GTResolve(resolved)

\* C26: compare_with_ground_truth puts every field for which the reference
\* has a value in exactly one of matches and discrepancies, and no other
\* field in either
C26_MatchOrDiscrepancy ==
    (gt_call # NoArgs /\ gt_search = NoResult /\ gt_result.status = "compared") =>
        LET reference == (CHOOSE e \in gt_ground_truth :
                              e.key = gt_result.filename_key).reference
        IN /\ gt_result.matches \cap gt_result.discrepancies = {}
           /\ gt_result.matches \cup gt_result.discrepancies =
                 {f \in FieldsToCompare : reference[f] # NoValue}

\* a comparison with a match and a discrepancy, the reference having no
\* value for a third field
C26_Witness ==
    /\ gt_call # NoArgs
    /\ gt_search = NoResult
    /\ gt_result.status = "compared"
    /\ gt_result.matches # {}
    /\ gt_result.discrepancies # {}
    /\ gt_result.matches \cup gt_result.discrepancies # FieldsToCompare

\* C27: the overall_accuracy of a stored comparison is the number of its
\* matches over the number of its matches and discrepancies, also after
\* the search resolution was applied to it
C27_AccuracyOfStored ==
    (gt_call # NoArgs /\ gt_result.status = "compared"
        /\ gt_result.matches \cup gt_result.discrepancies # {}) =>
        gt_result.overall_accuracy.percent =
            (100 * Cardinality(gt_result.matches)) \div
                (Cardinality(gt_result.matches) + Cardinality(gt_result.discrepancies))

\* ------------------------------------------------------------------------
\* BatchResults.add_result and get_summary under threads (cli.py)
\* ------------------------------------------------------------------------
\* add_result entered without waiting for the lock
ResultsLockFreeUnguarded == TRUE

\* `with self._lock:` can be entered
ResultsLockFree == ar_lock = NoThread

\* a thread calls add_result and takes the lock
AREnter(t, metadata) ==
    /\ ar_pc[t] = "idle"
    /\ ar_calls < MaxAddCalls
    /\ ResultsLockFree
    /\ ar_lock' = t
    /\ ar_calls' = ar_calls + 1
    /\ ar_arg' = [ar_arg EXCEPT ![t] = metadata]
    /\ ar_pc' = [ar_pc EXCEPT ![t] = "append"]
    /\ UNCHANGED <<ar_results, ar_stats, ar_local, ar_summary>>
    /\ UNCHANGED nonAR

\* self.results.append({...}); total_processed is loaded for the `+= 1`
ARAppend(t) ==
    /\ ar_pc[t] = "append"
    /\ ar_results' = Append(ar_results, [thread |-> t, metadata |-> ar_arg[t]])
    /\ ar_local' = [ar_local EXCEPT ![t] = ar_stats.total_processed]
    /\ ar_pc' = [ar_pc EXCEPT ![t] = "total"]
    /\ UNCHANGED <<ar_stats, ar_lock, ar_arg, ar_calls, ar_summary>>
    /\ UNCHANGED nonAR

\* total_processed is stored; successful or failed is loaded for its `+= 1`
ARCountTotal(t) ==
    /\ ar_pc[t] = "total"
    /\ ar_stats' = [ar_stats EXCEPT !.total_processed = ar_local[t] + 1]
    /\ ar_local' = [ar_local EXCEPT ![t] = IF ar_arg[t] THEN ar_stats.successful
                                           ELSE ar_stats.failed]
    /\ ar_pc' = [ar_pc EXCEPT ![t] = "kind"]
    /\ UNCHANGED <<ar_results, ar_lock, ar_arg, ar_calls, ar_summary>>
    /\ UNCHANGED nonAR

\* successful or failed is stored and the lock is released
ARCountKind(t) ==
    /\ ar_pc[t] = "kind"
    /\ ar_stats' = IF ar_arg[t]
                   THEN [ar_stats EXCEPT !.successful = ar_local[t] + 1]
                   ELSE [ar_stats EXCEPT !.failed = ar_local[t] + 1]
    /\ ar_lock' = NoThread
    /\ ar_pc' = [ar_pc EXCEPT ![t] = "idle"]
    /\ UNCHANGED <<ar_results, ar_arg, ar_local, ar_calls, ar_summary>>
    /\ UNCHANGED nonAR

\* get_summary: the copy of summary_stats taken under the lock
ARGetSummary ==
    /\ ResultsLockFree
    /\ ar_summary' = ar_stats
    /\ UNCHANGED <<ar_results, ar_stats, ar_lock, ar_pc, ar_arg, ar_local, ar_calls>>
    /\ UNCHANGED nonAR

ARStart ==
    /\ ar_results = <<>>
    /\ ar_stats = [total_processed |-> 0, successful |-> 0, failed |-> 0]
    /\ ar_lock = NoThread
    /\ ar_pc = [t \in Threads |-> "idle"]
    /\ ar_arg = [t \in Threads |-> FALSE]
    /\ ar_local = [t \in Threads |-> 0]
    /\ ar_calls = 0
    /\ ar_summary = [total_processed |-> 0, successful |-> 0, failed |-> 0]

ARThread == \E t \in Threads :
    \/ \E metadata \in BOOLEAN : AREnter(t, metadata)
    \/ ARAppend(t)
    \/ ARCountTotal(t)
    \/ ARCountKind(t)

\* C19: whatever the interleaving, when no add_result is in progress every
\* call has added one row and total_processed = successful + failed = the
\* number of rows, successful being the number of rows with metadata; and
\* a summary always has total_processed = successful + failed
C19_CountersConsistent ==
    /\ ar_summary.total_processed = ar_summary.successful + ar_summary.failed
    /\ (\A t \in Threads : ar_pc[t] = "idle") =>
          /\ Len(ar_results) = ar_calls
          /\ ar_stats.total_processed = Len(ar_results)
          /\ ar_stats.total_processed = ar_stats.successful + ar_stats.failed
          /\ ar_stats.successful =
                Cardinality({i \in 1..Len(ar_results) : ar_results[i].metadata})

\* every thread has added a row, with and without metadata, one thread
\* waited for the lock meanwhile, and all calls have returned
C19_Witness ==
    /\ \A t \in Threads : ar_pc[t] = "idle"
    /\ ar_calls = MaxAddCalls
    /\ \A t \in Threads : \E i \in 1..Len(ar_results) : ar_results[i].thread = t
    /\ ar_stats.successful > 0
    /\ ar_stats.failed > 0

\* ------------------------------------------------------------------------
\* Uploaded artifacts and their deletion (get_metadata.py, cli.py)
\* ------------------------------------------------------------------------
Parts == {"first", "last"}

NoRequests == [a \in Parts |-> 0]

\* client.files.delete(name=...) for artifact a: the request is counted, the
\* artifact leaves the store unless the call raises
DeleteRequested(counts, a) == [counts EXCEPT ![a] = @ + 1]

RemoteAfter(remote, item, deleted) == remote \ {<<item, a>> : a \in deleted}

\* prepare_and_upload_pdf_subset: the first pages are uploaded, then the
\* last pages when the document has them; `failing` are the artifacts whose
\* client.files.delete raises, `again_fails` tells whether the second
\* deletion of the first pages raises
UPPrepareAndUpload(has_last, first_ok, last_ok, failing, again_fails) ==
    /\ up_pc = "start"
    /\ IF ~first_ok
       THEN \* nothing was uploaded; the except branch returns (None, None)
            /\ up_pc' = "done"
            /\ up_outcome' = "upload_failed"
            /\ UNCHANGED <<up_uploaded, up_requests, up_remote, up_propagated>>
       ELSE IF has_last /\ ~last_ok
       THEN \* the first upload is deleted inside a bare except and once
            \* more, unprotected, by the outer except branch
            /\ up_uploaded' = {"first"}
            /\ up_requests' =
                  DeleteRequested(DeleteRequested(up_requests, "first"), "first")
            /\ up_remote' = IF "first" \in failing /\ again_fails
                            THEN up_remote \cup {<<up_item, "first">>}
                            ELSE up_remote
            /\ up_propagated' = again_fails
            /\ up_pc' = "done"
            /\ up_outcome' = "upload_failed"
       ELSE /\ up_uploaded' = IF has_last THEN Parts ELSE {"first"}
            /\ up_remote' = up_remote \cup
                  {<<up_item, a>> : a \in IF has_last THEN Parts ELSE {"first"}}
            /\ up_pc' = "uploaded"
            /\ UNCHANGED <<up_requests, up_propagated, up_outcome>>
    /\ UNCHANGED <<up_item, up_logged>>
    /\ UNCHANGED nonUP

\* get_metadata_from_gemini: on success the uploaded files are deleted inside
\* one try block, the first failure being logged; on failure None is
\* returned from the except branch of the retry loop
UPGetMetadata(success, failing) ==
    /\ up_pc = "uploaded"
    /\ IF success
       THEN IF "first" \in failing
            THEN /\ up_requests' = DeleteRequested(up_requests, "first")
                 /\ up_logged' = up_logged + 1
                 /\ UNCHANGED up_remote
            ELSE IF "last" \in up_uploaded
            THEN /\ up_requests' =
                       DeleteRequested(DeleteRequested(up_requests, "first"), "last")
                 /\ up_logged' = IF "last" \in failing THEN up_logged + 1
                                 ELSE up_logged
                 /\ up_remote' = RemoteAfter(up_remote, up_item, Parts \ failing)
            ELSE /\ up_requests' = DeleteRequested(up_requests, "first")
                 /\ up_remote' = RemoteAfter(up_remote, up_item, {"first"})
                 /\ UNCHANGED up_logged
       ELSE UNCHANGED <<up_requests, up_logged, up_remote>>
    /\ up_outcome' = IF success THEN "success" ELSE "failure"
    /\ up_pc' = "done"
    /\ UNCHANGED <<up_item, up_uploaded, up_propagated>>
    /\ UNCHANGED nonUP

\* process_pdf_with_validation is called for the next work item
UPNextItem ==
    /\ up_pc = "done"
    /\ up_item < MaxUploadItems
    /\ up_item' = up_item + 1
    /\ up_pc' = "start"
    /\ up_uploaded' = {}
    /\ up_requests' = NoRequests
    /\ up_logged' = 0
    /\ up_propagated' = FALSE
    /\ up_outcome' = "none"
    /\ UNCHANGED up_remote
    /\ UNCHANGED nonUP

UPStart ==
    /\ up_pc = "start"
    /\ up_item = 1
    /\ up_uploaded = {}
    /\ up_requests = NoRequests
    /\ up_remote = {}
    /\ up_logged = 0
    /\ up_propagated = FALSE
    /\ up_outcome = "none"

UPUpload == \E has_last, first_ok, last_ok, again_fails \in BOOLEAN :
    \E failing \in SUBSET Parts :
        UPPrepareAndUpload(has_last, first_ok, last_ok, failing, again_fails)

UPExtract == \E success \in BOOLEAN : \E failing \in SUBSET Parts :
    UPGetMetadata(success, failing)

\* C20: once the extraction of an item has finished, with or without
\* success, the deletion of every artifact uploaded for it has been
\* requested, and no deletion failure was propagated
C20_UploadsDeleted ==
    up_pc = "done" =>
        /\ \A a \in up_uploaded : up_requests[a] >= 1
        /\ ~up_propagated

\* ------------------------------------------------------------------------
\* Specifications, one per component
\* ------------------------------------------------------------------------
Init == RLStart /\ QStart /\ RTStart /\ FBStart /\ BStart /\ PSStart
        /\ G5Start /\ CEStart /\ SCStart
        /\ EXStart /\ GTStart /\ ARStart
        /\ UPStart /\ MXStart

NextRL == RLThread \/ Tick
SpecRL == Init /\ [][NextRL]_vars

NextQ == QThread \/ QRestart \/ NextDay
SpecQ == Init /\ [][NextQ]_vars

NextRT == RTIterate \/ RTUpload \/ RTExtract \/ RTValidate
SpecRT == Init /\ [][NextRT]_vars

NextFB == FBAttempt \/ FBBackoff \/ FBFallback \/ FBNextRequest \/ FBTick
SpecFB == Init /\ [][NextFB]_vars

NextB == BStartRun \/ SubmitBatch \/ BCollect \/ FinishRun
SpecB == Init /\ [][NextB]_vars

\* the loops of batch_process_pdfs go on and every worker returns: a worker
\* makes a bounded number of calls, and every call returns or raises
SpecBLive == SpecB /\ WF_vars(SubmitBatch) /\ WF_vars(BCollect) /\ WF_vars(FinishRun)

NextPS == PSCollect \/ PSDump \/ PSCrash \/ PSRestart
SpecPS == Init /\ [][NextPS]_vars

NextG5 == G5StartRun \/ G5CollectAny \/ G5Finish
SpecG5 == Init /\ [][NextG5]_vars

NextCE == CECategorize
SpecCE == Init /\ [][NextCE]_vars

NextSC == SCSubmit \/ SCWorker \/ SCCollectAny \/ SCFinish
SpecSC == Init /\ [][NextSC]_vars

NextEX == EXExport
SpecEX == Init /\ [][NextEX]_vars

NextGT == GTLoadFile \/ GTCompareFile \/ GTSearch
SpecGT == Init /\ [][NextGT]_vars

NextAR == ARThread \/ ARGetSummary
SpecAR == Init /\ [][NextAR]_vars

NextUP == UPUpload \/ UPExtract \/ UPNextItem
SpecUP == Init /\ [][NextUP]_vars

NextBC == MainRun \/ SubmitBatch \/ BCollect \/ FinishRun \/ BCrash \/ MainExport
SpecBC == Init /\ [][NextBC]_vars

====
